---- MODULE Spec2Model ----
(***************************************************************************)
(* ports/glutin/headless_window.rs: the headless Window.                   *)
(*                                                                         *)
(* The Window owns a surface provider handle (WebrenderSurfman) and a few  *)
(* Cells.  Every public method is one action.  The provider is an opaque,  *)
(* possibly failing service: the outcome of each provider call is drawn    *)
(* nondeterministically.  A failed `expect` / `unreachable!` is a panic:   *)
(* the call never returns and no further call is made on the Window.       *)
(*                                                                         *)
(* Encodings                                                               *)
(*   Size2D<T>        <<width, height>>                                    *)
(*   Option<T>        <<>> for None, <<v>> for Some(v)                     *)
(*   Result<T, E>     [ok |-> TRUE, val |-> v]  or  [ok |-> FALSE]         *)
(*   f32              the f32 values that occur are integral; each is      *)
(*                    written as its integer value, and every conversion   *)
(*                    to f32 rounds to a 24 bit significand                *)
(***************************************************************************)
EXTENDS Integers, Sequences, FiniteSets, TLC

VARIABLES
    webrender_surfman,      \* the provider's surface: [size |-> <<w, h>>]
    animation_state,        \* "Idle" | "Animating"
    fullscreen,             \* BOOLEAN
    device_pixels_per_px,   \* Option<f32>
    inner_size,             \* Size2D<i32>
    size_changed,           \* BOOLEAN
    status,                 \* "live" | "panicked"
    lastOp,                 \* name of the last method called
    arg,                    \* its argument (<<>> when it has none)
    ret,                    \* its return value (<<>> for unit or no return)
    provider_calls,         \* the provider calls the last method made
    sets_since_poll,        \* set_inner_size calls returned since the last get_events
    sets_before_poll,       \* at a get_events call: the set_inner_size calls it follows
    polls_since_set,        \* get_events calls since the last set_inner_size
                            \* (-1: never set; 3: three or more)
    last_request,           \* argument of the last set_inner_size that returned
    fullscreen_set,         \* Option: argument of the last set_fullscreen call
    animation_set           \* Option: argument of the last set_animation_state call

window == <<webrender_surfman, animation_state, fullscreen, device_pixels_per_px,
            inner_size, size_changed>>

vars == <<webrender_surfman, animation_state, fullscreen, device_pixels_per_px,
          inner_size, size_changed, status, lastOp, arg, ret, provider_calls,
          sets_since_poll, sets_before_poll, polls_since_set, last_request,
          fullscreen_set, animation_set>>

----------------------------------------------------------------------------
(* Bounds of the model *)

MaxDim == 2          \* small widths and heights are 0..MaxDim
MaxDensity == 2      \* device_pixels_per_px is None or Some(1..MaxDensity)
MaxSets == 2         \* set_inner_size calls between two get_events calls

I32Max == 2147483647

\* f32 has a 24 bit significand: integers up to 2^24 convert exactly
F32Exact == 2 ^ 24

\* the smallest height that `as f32` does not represent
BigDim == F32Exact + 1

\* sizes a caller passes to Window::new (u32 components)
InitDims == 0 .. MaxDim
InitSizes == (InitDims \X InitDims) \cup {<<1, BigDim>>}

\* sizes a caller passes to set_inner_size (i32 components)
ReqDims == -1 .. MaxDim
ReqSizes == (ReqDims \X ReqDims) \cup {<<1, BigDim>>}

Densities == {<<>>} \cup {<<d>> : d \in 1 .. MaxDensity}

\* platform events a caller passes to winit_event_to_servo_event
WinitEvents == {"Resized", "CloseRequested", "Focused"}

Outcomes == {"Ok", "Err"}
InfoOutcomes == {"Err", "None", "Some"}

----------------------------------------------------------------------------
(* Rust library helpers, as the code uses them *)

None == <<>>
Some(v) == <<v>>
Ok(v) == [ok |-> TRUE, val |-> v]
Err == [ok |-> FALSE]

\* Result::unwrap_or
Result_unwrap_or(r, default) == IF r.ok THEN r.val ELSE default

\* Option::unwrap_or
Option_unwrap_or(o, default) == IF o = None THEN default ELSE o[1]

\* Size2D<u32>::to_i32: a checked cast of each component (panics when it fails)
to_i32_fits(size) == size[1] <= I32Max /\ size[2] <= I32Max

\* the binary exponent q = 2^e of the f32 quantum at magnitude n
RECURSIVE F32Quantum(_, _)
F32Quantum(n, q) == IF n \div q < F32Exact THEN q ELSE F32Quantum(n, 2 * q)

\* round-to-nearest, ties-to-even, of a non-negative integer to f32
F32RoundAbs(n) ==
    LET q  == F32Quantum(n, 1)
        lo == (n \div q) * q
        r  == n - lo
    IN  IF 2 * r < q THEN lo
        ELSE IF 2 * r > q THEN lo + q
        ELSE IF (lo \div q) % 2 = 0 THEN lo ELSE lo + q

\* `x as f32` for an i32 x, and the rounding of every f32 result
as_f32(x) == IF x >= 0 THEN F32RoundAbs(x) ELSE 0 - F32RoundAbs(0 - x)

\* f32 multiplication
f32_mul(a, b) == as_f32(a * b)

----------------------------------------------------------------------------
(* The surface provider (WebrenderSurfman) *)

\* WebrenderSurfman::create(connection, adapter, SurfaceType::Generic { size })
WebrenderSurfman_create(size, outcome) ==
    IF outcome = "Ok" THEN Ok([size |-> size]) ELSE Err

\* WebrenderSurfman::resize(size): resizes the surface in place
WebrenderSurfman_resize(surfman, size, outcome) ==
    IF outcome = "Ok" THEN Ok([size |-> size]) ELSE Err

\* WebrenderSurfman::context_surface_info() -> Result<Option<SurfaceInfo>, Error>
context_surface_info(surfman, outcome) ==
    CASE outcome = "Err"  -> Err
      [] outcome = "None" -> Ok(None)
      [] outcome = "Some" -> Ok(Some([size |-> surfman.size]))

----------------------------------------------------------------------------
(* Window *)

\* clamp that lets a zero dimension through
clamp_dimension_ge0(v) == IF v >= 0 THEN v ELSE 1

\* the clamp of one dimension in set_inner_size
clamp_dimension(v) == IF v > 0 THEN v ELSE 1

\* Window::new that clamps the size it stores, not the size of the surface
Window_new_clamps_stored(size, dpr, created) ==
    LET r == WebrenderSurfman_create(size, created)
    IN  /\ status = (IF to_i32_fits(size) /\ r.ok THEN "live" ELSE "panicked")
        /\ webrender_surfman = [size |-> size]
        /\ animation_state = "Idle"
        /\ fullscreen = FALSE
        /\ device_pixels_per_px = dpr
        /\ inner_size = <<clamp_dimension(size[1]), clamp_dimension(size[2])>>
        /\ size_changed = FALSE
        /\ lastOp = "new"
        /\ arg = <<size, dpr>>
        /\ ret = <<>>
        /\ provider_calls = <<[fn |-> "create", size |-> size, result |-> created]>>
        /\ sets_since_poll = 0
        /\ sets_before_poll = 0
        /\ polls_since_set = -1
        /\ last_request = <<>>
        /\ fullscreen_set = <<>>
        /\ animation_set = <<>>

\* Window::new with animation_state: Cell::new(AnimationState::Animating)
Window_new_animating(size, dpr, created) ==
    LET r == WebrenderSurfman_create(size, created)
    IN  /\ status = (IF to_i32_fits(size) /\ r.ok THEN "live" ELSE "panicked")
        /\ webrender_surfman = [size |-> size]
        /\ animation_state = "Animating"
        /\ fullscreen = FALSE
        /\ device_pixels_per_px = dpr
        /\ inner_size = size
        /\ size_changed = FALSE
        /\ lastOp = "new"
        /\ arg = <<size, dpr>>
        /\ ret = <<>>
        /\ provider_calls = <<[fn |-> "create", size |-> size, result |-> created]>>
        /\ sets_since_poll = 0
        /\ sets_before_poll = 0
        /\ polls_since_set = -1
        /\ last_request = <<>>
        /\ fullscreen_set = <<>>
        /\ animation_set = <<>>

\* Window::new with size_changed: Cell::new(true)
Window_new_pending(size, dpr, created) ==
    LET r == WebrenderSurfman_create(size, created)
    IN  /\ status = (IF to_i32_fits(size) /\ r.ok THEN "live" ELSE "panicked")
        /\ webrender_surfman = [size |-> size]
        /\ animation_state = "Idle"
        /\ fullscreen = FALSE
        /\ device_pixels_per_px = dpr
        /\ inner_size = size
        /\ size_changed = TRUE
        /\ lastOp = "new"
        /\ arg = <<size, dpr>>
        /\ ret = <<>>
        /\ provider_calls = <<[fn |-> "create", size |-> size, result |-> created]>>
        /\ sets_since_poll = 0
        /\ sets_before_poll = 0
        /\ polls_since_set = -1
        /\ last_request = <<>>
        /\ fullscreen_set = <<>>
        /\ animation_set = <<>>

\* Window::new: the state after construction.  When a cast or the provider
\* fails, the `expect` panics and no Window exists (status "panicked").
Window_new(size, dpr, created) ==
    LET r == WebrenderSurfman_create(size, created)
    IN  /\ status = (IF to_i32_fits(size) /\ r.ok THEN "live" ELSE "panicked")
        /\ webrender_surfman = [size |-> size]
        /\ animation_state = "Idle"
        /\ fullscreen = FALSE
        /\ device_pixels_per_px = dpr
        /\ inner_size = size
        /\ size_changed = FALSE
        /\ lastOp = "new"
        /\ arg = <<size, dpr>>
        /\ ret = <<>>
        /\ provider_calls = <<[fn |-> "create", size |-> size, result |-> created]>>
        /\ sets_since_poll = 0
        /\ sets_before_poll = 0
        /\ polls_since_set = -1
        /\ last_request = <<>>
        /\ fullscreen_set = <<>>
        /\ animation_set = <<>>

\* servo_hidpi_factor that ignores the configured density
servo_hidpi_factor_one(dpr) == 1

\* Window::servo_hidpi_factor
servo_hidpi_factor(dpr) ==
    IF dpr # None THEN dpr[1] ELSE 1

\* get_events that reads the flag with get() and leaves it set
get_events_no_clear ==
    /\ status = "live"
    /\ ret' = (IF size_changed THEN <<"Resize">> ELSE <<>>)
    /\ lastOp' = "get_events"
    /\ arg' = <<>>
    /\ provider_calls' = <<>>
    /\ sets_since_poll' = 0
    /\ sets_before_poll' = sets_since_poll
    /\ polls_since_set' = (IF polls_since_set = -1 THEN -1
                           ELSE IF polls_since_set >= 3 THEN 3
                           ELSE polls_since_set + 1)
    /\ UNCHANGED <<window, status, last_request, fullscreen_set, animation_set>>

\* Window::get_events
get_events ==
    /\ status = "live"
    /\ LET taken == size_changed           \* Cell::take: read, leave false
           vec   == IF taken THEN <<"Resize">> ELSE <<>>
       IN  /\ size_changed' = FALSE
           /\ ret' = vec
    /\ lastOp' = "get_events"
    /\ arg' = <<>>
    /\ provider_calls' = <<>>
    /\ sets_since_poll' = 0
    /\ sets_before_poll' = sets_since_poll
    /\ polls_since_set' = (IF polls_since_set = -1 THEN -1
                           ELSE IF polls_since_set >= 3 THEN 3
                           ELSE polls_since_set + 1)
    /\ UNCHANGED <<webrender_surfman, animation_state, fullscreen,
                   device_pixels_per_px, inner_size, status, last_request,
                   fullscreen_set, animation_set>>

\* the bookkeeping of a set_inner_size call that returns
set_inner_size_returned(size) ==
    /\ status' = "live"
    /\ lastOp' = "set_inner_size"
    /\ arg' = size
    /\ ret' = <<>>
    /\ sets_since_poll' = sets_since_poll + 1
    /\ polls_since_set' = 0
    /\ last_request' = size
    /\ UNCHANGED <<sets_before_poll, fullscreen_set, animation_set>>

\* the bookkeeping of a set_inner_size call that panics in `expect`
set_inner_size_panicked(size) ==
    /\ status' = "panicked"
    /\ lastOp' = "set_inner_size"
    /\ arg' = size
    /\ ret' = <<>>
    /\ UNCHANGED <<window, sets_since_poll, sets_before_poll, polls_since_set,
                   last_request, fullscreen_set, animation_set>>

\* set_inner_size that marks the resize pending only when the size changed
set_inner_size_flag_on_change(size) ==
    /\ status = "live"
    /\ sets_since_poll < MaxSets
    /\ LET width    == clamp_dimension(size[1])
           height   == clamp_dimension(size[2])
           new_size == <<width, height>>
       IN  IF inner_size # new_size
           THEN \E outcome \in Outcomes :
                  LET r == WebrenderSurfman_resize(webrender_surfman, new_size, outcome)
                  IN  /\ provider_calls' =
                             <<[fn |-> "resize", size |-> new_size, result |-> outcome]>>
                      /\ IF r.ok
                         THEN /\ webrender_surfman' = r.val
                              /\ inner_size' = new_size
                              /\ size_changed' = TRUE
                              /\ set_inner_size_returned(size)
                              /\ UNCHANGED <<animation_state, fullscreen,
                                             device_pixels_per_px>>
                         ELSE set_inner_size_panicked(size)
           ELSE /\ provider_calls' = <<>>
                /\ set_inner_size_returned(size)
                /\ UNCHANGED window

\* set_inner_size that keeps the first size while a resize is already pending
set_inner_size_first_wins(size) ==
    /\ status = "live"
    /\ sets_since_poll < MaxSets
    /\ LET width    == clamp_dimension(size[1])
           height   == clamp_dimension(size[2])
           new_size == <<width, height>>
       IN  IF inner_size # new_size /\ ~size_changed
           THEN \E outcome \in Outcomes :
                  LET r == WebrenderSurfman_resize(webrender_surfman, new_size, outcome)
                  IN  /\ provider_calls' =
                             <<[fn |-> "resize", size |-> new_size, result |-> outcome]>>
                      /\ IF r.ok
                         THEN /\ webrender_surfman' = r.val
                              /\ inner_size' = new_size
                              /\ size_changed' = TRUE
                              /\ set_inner_size_returned(size)
                              /\ UNCHANGED <<animation_state, fullscreen,
                                             device_pixels_per_px>>
                         ELSE set_inner_size_panicked(size)
           ELSE /\ provider_calls' = <<>>
                /\ size_changed' = TRUE
                /\ set_inner_size_returned(size)
                /\ UNCHANGED <<webrender_surfman, animation_state, fullscreen,
                               device_pixels_per_px, inner_size>>

\* set_inner_size that stores the new size before it asks the provider
set_inner_size_store_first(size) ==
    /\ status = "live"
    /\ sets_since_poll < MaxSets
    /\ LET width    == clamp_dimension(size[1])
           height   == clamp_dimension(size[2])
           new_size == <<width, height>>
       IN  IF inner_size # new_size
           THEN \E outcome \in Outcomes :
                  LET r == WebrenderSurfman_resize(webrender_surfman, new_size, outcome)
                  IN  /\ provider_calls' =
                             <<[fn |-> "resize", size |-> new_size, result |-> outcome]>>
                      /\ inner_size' = new_size
                      /\ IF r.ok
                         THEN /\ webrender_surfman' = r.val
                              /\ size_changed' = TRUE
                              /\ set_inner_size_returned(size)
                              /\ UNCHANGED <<animation_state, fullscreen,
                                             device_pixels_per_px>>
                         ELSE /\ status' = "panicked"
                              /\ lastOp' = "set_inner_size"
                              /\ arg' = size
                              /\ ret' = <<>>
                              /\ UNCHANGED <<webrender_surfman, animation_state,
                                             fullscreen, device_pixels_per_px,
                                             size_changed, sets_since_poll,
                                             sets_before_poll, polls_since_set,
                                             last_request, fullscreen_set,
                                             animation_set>>
           ELSE /\ provider_calls' = <<>>
                /\ size_changed' = TRUE
                /\ set_inner_size_returned(size)
                /\ UNCHANGED <<webrender_surfman, animation_state, fullscreen,
                               device_pixels_per_px, inner_size>>

\* set_inner_size that hands the provider the requested size, not the clamped one
set_inner_size_raw_resize(size) ==
    /\ status = "live"
    /\ sets_since_poll < MaxSets
    /\ LET width    == clamp_dimension(size[1])
           height   == clamp_dimension(size[2])
           new_size == <<width, height>>
       IN  IF inner_size # new_size
           THEN \E outcome \in Outcomes :
                  LET r == WebrenderSurfman_resize(webrender_surfman, size, outcome)
                  IN  /\ provider_calls' =
                             <<[fn |-> "resize", size |-> size, result |-> outcome]>>
                      /\ IF r.ok
                         THEN /\ webrender_surfman' = r.val
                              /\ inner_size' = new_size
                              /\ size_changed' = TRUE
                              /\ set_inner_size_returned(size)
                              /\ UNCHANGED <<animation_state, fullscreen,
                                             device_pixels_per_px>>
                         ELSE set_inner_size_panicked(size)
           ELSE /\ provider_calls' = <<>>
                /\ size_changed' = TRUE
                /\ set_inner_size_returned(size)
                /\ UNCHANGED <<webrender_surfman, animation_state, fullscreen,
                               device_pixels_per_px, inner_size>>

\* Window::set_inner_size
set_inner_size(size) ==
    /\ status = "live"
    /\ sets_since_poll < MaxSets
    /\ LET width    == clamp_dimension(size[1])
           height   == clamp_dimension(size[2])
           new_size == <<width, height>>
       IN  IF inner_size # new_size
           THEN \E outcome \in Outcomes :
                  LET r == WebrenderSurfman_resize(webrender_surfman, new_size, outcome)
                  IN  /\ provider_calls' =
                             <<[fn |-> "resize", size |-> new_size, result |-> outcome]>>
                      /\ IF r.ok
                         THEN /\ webrender_surfman' = r.val
                              /\ inner_size' = new_size
                              /\ size_changed' = TRUE
                              /\ set_inner_size_returned(size)
                              /\ UNCHANGED <<animation_state, fullscreen,
                                             device_pixels_per_px>>
                         ELSE set_inner_size_panicked(size)
           ELSE /\ provider_calls' = <<>>
                /\ size_changed' = TRUE
                /\ set_inner_size_returned(size)
                /\ UNCHANGED <<webrender_surfman, animation_state, fullscreen,
                               device_pixels_per_px, inner_size>>

\* the bookkeeping of a call that returns r: the call record, and the
\* argument of a flag setter; the resize/poll history is left alone
returned(op, a, r, calls) ==
    /\ lastOp' = op
    /\ arg' = a
    /\ ret' = r
    /\ provider_calls' = calls
    /\ fullscreen_set' = (IF op = "set_fullscreen" THEN <<a>> ELSE fullscreen_set)
    /\ animation_set' = (IF op = "set_animation_state" THEN <<a>> ELSE animation_set)
    /\ UNCHANGED <<status, sets_since_poll, sets_before_poll, polls_since_set,
                   last_request>>

\* has_events that reads the flag with take() and so clears it
has_events_take ==
    /\ status = "live"
    /\ size_changed' = FALSE
    /\ returned("has_events", <<>>, size_changed, <<>>)
    /\ UNCHANGED <<webrender_surfman, animation_state, fullscreen,
                   device_pixels_per_px, inner_size>>

\* Window::has_events
has_events ==
    /\ status = "live"
    /\ returned("has_events", <<>>, size_changed, <<>>)
    /\ UNCHANGED window

\* Window::page_height
page_height ==
    /\ status = "live"
    /\ \E outcome \in InfoOutcomes :
         LET info   == Result_unwrap_or(context_surface_info(webrender_surfman, outcome), None)
             height == Option_unwrap_or(IF info = None THEN None
                                        ELSE Some(info[1].size[2]), 0)
             dpr    == servo_hidpi_factor(device_pixels_per_px)
         IN  returned("page_height", <<>>, f32_mul(as_f32(height), dpr),
                      <<[fn |-> "context_surface_info", result |-> outcome]>>)
    /\ UNCHANGED window

\* set_fullscreen that also marks a resize pending
set_fullscreen_marks_resize(state) ==
    /\ status = "live"
    /\ fullscreen' = state
    /\ size_changed' = TRUE
    /\ returned("set_fullscreen", state, <<>>, <<>>)
    /\ UNCHANGED <<webrender_surfman, animation_state, device_pixels_per_px, inner_size>>

\* Window::set_fullscreen
set_fullscreen(state) ==
    /\ status = "live"
    /\ fullscreen' = state
    /\ returned("set_fullscreen", state, <<>>, <<>>)
    /\ UNCHANGED <<webrender_surfman, animation_state, device_pixels_per_px,
                   inner_size, size_changed>>

\* Window::get_fullscreen
get_fullscreen ==
    /\ status = "live"
    /\ returned("get_fullscreen", <<>>, fullscreen, <<>>)
    /\ UNCHANGED window

\* Window::is_animating
is_animating ==
    /\ status = "live"
    /\ returned("is_animating", <<>>, animation_state = "Animating", <<>>)
    /\ UNCHANGED window

\* winit_event_to_servo_event that drops the event and returns
winit_event_ignored(event) ==
    /\ status = "live"
    /\ returned("winit_event_to_servo_event", event, <<>>, <<>>)
    /\ UNCHANGED window

\* Window::winit_event_to_servo_event: unreachable!
winit_event_to_servo_event(event) ==
    /\ status = "live"
    /\ status' = "panicked"
    /\ lastOp' = "winit_event_to_servo_event"
    /\ arg' = event
    /\ ret' = <<>>
    /\ provider_calls' = <<>>
    /\ UNCHANGED <<window, sets_since_poll, sets_before_poll, polls_since_set,
                   last_request, fullscreen_set, animation_set>>

\* the EmbedderCoordinates built from one size and the density factor
EmbedderCoordinates(size, dpr) ==
    [viewport     |-> [origin |-> <<0, 0>>, size |-> size],
     framebuffer  |-> size,
     window       |-> <<size, <<0, 0>>>>,
     screen       |-> size,
     screen_avail |-> size,
     hidpi_factor |-> dpr]

\* get_coordinates that falls back to the stored size when the query fails
get_coordinates_fallback_inner ==
    /\ status = "live"
    /\ \E outcome \in InfoOutcomes :
         LET dpr  == servo_hidpi_factor(device_pixels_per_px)
             info == Result_unwrap_or(context_surface_info(webrender_surfman, outcome), None)
             size == Option_unwrap_or(IF info = None THEN None
                                      ELSE Some(info[1].size), inner_size)
         IN  returned("get_coordinates", <<>>, EmbedderCoordinates(size, dpr),
                      <<[fn |-> "context_surface_info", result |-> outcome]>>)
    /\ UNCHANGED window

\* get_coordinates that stores the queried size as the logical size
get_coordinates_syncs_size ==
    /\ status = "live"
    /\ \E outcome \in InfoOutcomes :
         LET dpr  == servo_hidpi_factor(device_pixels_per_px)
             info == Result_unwrap_or(context_surface_info(webrender_surfman, outcome), None)
             size == Option_unwrap_or(IF info = None THEN None
                                      ELSE Some(info[1].size), <<0, 0>>)
         IN  /\ inner_size' = size
             /\ returned("get_coordinates", <<>>, EmbedderCoordinates(size, dpr),
                         <<[fn |-> "context_surface_info", result |-> outcome]>>)
    /\ UNCHANGED <<webrender_surfman, animation_state, fullscreen,
                   device_pixels_per_px, size_changed>>

\* Window::get_coordinates
get_coordinates ==
    /\ status = "live"
    /\ \E outcome \in InfoOutcomes :
         LET dpr  == servo_hidpi_factor(device_pixels_per_px)
             info == Result_unwrap_or(context_surface_info(webrender_surfman, outcome), None)
             size == Option_unwrap_or(IF info = None THEN None
                                      ELSE Some(info[1].size), <<0, 0>>)
         IN  returned("get_coordinates", <<>>, EmbedderCoordinates(size, dpr),
                      <<[fn |-> "context_surface_info", result |-> outcome]>>)
    /\ UNCHANGED window

\* set_animation_state that validates the transition: Animating is not left
set_animation_state_sticky(state) ==
    /\ status = "live"
    /\ animation_state' = (IF animation_state = "Animating" THEN "Animating" ELSE state)
    /\ returned("set_animation_state", state, <<>>, <<>>)
    /\ UNCHANGED <<webrender_surfman, fullscreen, device_pixels_per_px,
                   inner_size, size_changed>>

\* Window::set_animation_state
set_animation_state(state) ==
    /\ status = "live"
    /\ animation_state' = state
    /\ returned("set_animation_state", state, <<>>, <<>>)
    /\ UNCHANGED <<webrender_surfman, fullscreen, device_pixels_per_px,
                   inner_size, size_changed>>

\* Window::get_gl_context
get_gl_context ==
    /\ status = "live"
    /\ returned("get_gl_context", <<>>, "GlContext::Unknown", <<>>)
    /\ UNCHANGED window

\* Window::get_native_display
get_native_display ==
    /\ status = "live"
    /\ returned("get_native_display", <<>>, "NativeDisplay::Unknown", <<>>)
    /\ UNCHANGED window

\* Window::get_gl_api
get_gl_api ==
    /\ status = "live"
    /\ returned("get_gl_api", <<>>, "GlApi::None", <<>>)
    /\ UNCHANGED window

----------------------------------------------------------------------------
(* The specification *)

Init ==
    \E size \in InitSizes, dpr \in Densities, created \in Outcomes :
        Window_new(size, dpr, created)

Next ==
    \/ get_events
    \/ \E size \in ReqSizes : set_inner_size(size)
    \/ has_events
    \/ page_height
    \/ \E state \in BOOLEAN : set_fullscreen(state)
    \/ get_fullscreen
    \/ is_animating
    \/ \E event \in WinitEvents : winit_event_to_servo_event(event)
    \/ get_coordinates
    \/ \E state \in {"Idle", "Animating"} : set_animation_state(state)
    \/ get_gl_context
    \/ get_native_display
    \/ get_gl_api

Spec == Init /\ [][Next]_vars

----------------------------------------------------------------------------
(* Properties *)

\* max(v, 1), as the properties state the clamp
Max1(v) == IF v >= 1 THEN v ELSE 1

\* the size a request is expected to be stored as
Clamped(size) == <<Max1(size[1]), Max1(size[2])>>

\* C1: after set_inner_size(w, h) returns, from any starting state, the stored
\* logical size is exactly (max(w,1), max(h,1)): a non-positive dimension
\* becomes 1 independently of the other, a positive one is stored unchanged.
C1_ResizeClamps ==
    (lastOp = "set_inner_size" /\ status = "live")
        => /\ inner_size = Clamped(arg)
           /\ (arg[1] <= 0 => inner_size[1] = 1)
           /\ (arg[2] <= 0 => inner_size[2] = 1)
           /\ (arg[1] > 0 => inner_size[1] = arg[1])
           /\ (arg[2] > 0 => inner_size[2] = arg[2])

\* C1 witness: a returned call with a non-positive width and a positive
\* height above 1: the width is stored as 1, the height unchanged.
C1_Witness ==
    /\ lastOp = "set_inner_size"
    /\ status = "live"
    /\ arg[1] <= 0
    /\ arg[2] > 1
    /\ inner_size = <<1, arg[2]>>

\* C2 (as claimed): in every reachable state of the host, from construction
\* with any requested size on, both dimensions of inner_size are >= 1.
C2_SizeAlwaysPositive ==
    status = "live" => (inner_size[1] >= 1 /\ inner_size[2] >= 1)

\* C3: after a set_inner_size call, with no further set_inner_size, the next
\* get_events returns exactly one Resize and the one after it returns nothing.
C3_PollThenClear ==
    lastOp = "get_events"
        => /\ (polls_since_set = 1 => ret = <<"Resize">>)
           /\ (polls_since_set = 2 => ret = <<>>)

\* C3 witness: the second get_events after a set_inner_size has returned empty.
C3_Witness ==
    /\ lastOp = "get_events"
    /\ polls_since_set = 2
    /\ ret = <<>>

\* C4: set_inner_size calls the provider's resize if and only if the clamped
\* request differs from the stored size, and every call that returns leaves
\* size_changed true, also when the clamped size equals the stored size.
C4_ResizeOnlyOnChange ==
    [][lastOp' = "set_inner_size"
         => /\ (provider_calls' # <<>>) <=> (Clamped(arg') # inner_size)
            /\ \A i \in 1 .. Len(provider_calls') :
                   /\ provider_calls'[i].fn = "resize"
                   /\ provider_calls'[i].size = Clamped(arg')
            /\ Len(provider_calls') <= 1
            /\ (status' = "live" => size_changed')]_vars

\* C4 witness: the first set_inner_size after a poll (the flag was clear)
\* asked for the stored size: no provider call was made and the flag is set.
C4_Witness ==
    /\ lastOp = "set_inner_size"
    /\ status = "live"
    /\ sets_since_poll = 1
    /\ provider_calls = <<>>
    /\ size_changed

\* C5: has_events returns true exactly when an immediately following
\* get_events returns a non-empty sequence, and has_events changes no state.
C5_HasEventsPure ==
    [][/\ (lastOp' = "has_events"
             => /\ UNCHANGED <<window, status>>
                /\ provider_calls' = <<>>)
       /\ ((lastOp = "has_events" /\ lastOp' = "get_events")
             => (ret <=> (ret' # <<>>)))]_vars

\* C5 witness: has_events has returned true and the flag is still set.
C5_Witness ==
    /\ lastOp = "has_events"
    /\ ret = TRUE
    /\ size_changed

\* C6: for any n >= 1 set_inner_size calls between two get_events calls, the
\* second get_events returns exactly one Resize, and the stored size is then
\* the clamped size of the last of the n calls.
C6_Coalesced ==
    (lastOp = "get_events" /\ sets_before_poll >= 1)
        => /\ ret = <<"Resize">>
           /\ inner_size = Clamped(last_request)

\* C6 witness: a get_events that follows two set_inner_size calls has
\* returned a single Resize.
C6_Witness ==
    /\ lastOp = "get_events"
    /\ sets_before_poll = 2
    /\ Len(ret) = 1

\* C7: get_events returns a non-empty sequence only if a set_inner_size call
\* happened since the previous get_events (or since construction), the empty
\* sequence otherwise, and every event it returns is Resize.
C7_EventsOnlyAfterResize ==
    lastOp = "get_events"
        => /\ (ret # <<>> => sets_before_poll >= 1)
           /\ (sets_before_poll = 0 => ret = <<>>)
           /\ \A i \in 1 .. Len(ret) : ret[i] = "Resize"

\* C7 witness: a get_events with no set_inner_size before it, on a Window
\* that was resized earlier, has returned the empty sequence.
C7_Witness ==
    /\ lastOp = "get_events"
    /\ sets_before_poll = 0
    /\ polls_since_set >= 2
    /\ ret = <<>>

\* C8: get_coordinates never fails; with the provider's surface info
\* available every size it returns is the provider's surface size (origins
\* zero), and with the query failing or reporting no surface every size is
\* (0,0), whatever the stored logical size.
C8_Coordinates ==
    /\ status = "live" => ENABLED get_coordinates
    /\ lastOp = "get_coordinates"
         => /\ status = "live"
            /\ LET size == IF provider_calls[1].result = "Some"
                           THEN webrender_surfman.size
                           ELSE <<0, 0>>
               IN  /\ ret.viewport = [origin |-> <<0, 0>>, size |-> size]
                   /\ ret.framebuffer = size
                   /\ ret.window = <<size, <<0, 0>>>>
                   /\ ret.screen = size
                   /\ ret.screen_avail = size

\* C8 witness: the provider query failed while the stored size is not zero,
\* and get_coordinates returned the zero size.
C8_Witness ==
    /\ lastOp = "get_coordinates"
    /\ provider_calls[1].result = "Err"
    /\ inner_size[1] >= 1
    /\ inner_size[2] >= 1
    /\ ret.framebuffer = <<0, 0>>
    /\ ret.viewport.size = <<0, 0>>

\* C9: page_height returns the provider's surface height times the density
\* factor (device_pixels_per_px when set, 1 when unset), in f32 arithmetic,
\* which is the exact product up to 2^24; it returns 0 when the provider's
\* surface info is unavailable.
C9_PageHeight ==
    lastOp = "page_height"
        => LET height == webrender_surfman.size[2]
               factor == IF device_pixels_per_px = <<>> THEN 1
                         ELSE device_pixels_per_px[1]
           IN  IF provider_calls[1].result = "Some"
               THEN /\ ret = f32_mul(as_f32(height), factor)
                    /\ (height * factor <= F32Exact => ret = height * factor)
               ELSE ret = 0

\* C9 witness: density 2 and a surface of height 2 gave 4.
C9_Witness ==
    /\ lastOp = "page_height"
    /\ provider_calls[1].result = "Some"
    /\ device_pixels_per_px = <<2>>
    /\ webrender_surfman.size[2] = 2
    /\ ret = 4

\* C10: set_inner_size and get_events leave the fullscreen flag and the
\* animation state unchanged; set_fullscreen and set_animation_state leave
\* the stored size, the pending flag and the provider surface unchanged and
\* make no provider call.
C10_FlagsIndependent ==
    [][/\ (lastOp' \in {"set_inner_size", "get_events"}
             => UNCHANGED <<fullscreen, animation_state>>)
       /\ (lastOp' \in {"set_fullscreen", "set_animation_state"}
             => /\ UNCHANGED <<inner_size, size_changed, webrender_surfman>>
                /\ provider_calls' = <<>>)]_vars

\* C10 witness: a poll has reported a resize on a Window that is fullscreen
\* and animating.
C10_Witness ==
    /\ lastOp = "get_events"
    /\ ret = <<"Resize">>
    /\ fullscreen
    /\ animation_state = "Animating"

\* C11: get_fullscreen returns the argument of the most recent set_fullscreen
\* call and is_animating returns true exactly when the most recent
\* set_animation_state call passed Animating; every set is accepted from
\* every prior state.
C11_LastSetWins ==
    /\ (lastOp = "get_fullscreen" /\ fullscreen_set # <<>>)
           => ret = fullscreen_set[1]
    /\ (lastOp = "is_animating" /\ animation_set # <<>>)
           => (ret <=> (animation_set[1] = "Animating"))
    /\ (lastOp = "set_fullscreen" => (status = "live" /\ fullscreen = arg))
    /\ (lastOp = "set_animation_state" => (status = "live" /\ animation_state = arg))
    /\ status = "live"
           => /\ \A b \in BOOLEAN : ENABLED set_fullscreen(b)
              /\ \A st \in {"Idle", "Animating"} : ENABLED set_animation_state(st)

\* C11 witness: is_animating has returned false after the last
\* set_animation_state passed Idle, on a Window whose last set_fullscreen
\* passed true.
C11_Witness ==
    /\ lastOp = "is_animating"
    /\ ret = FALSE
    /\ animation_set = <<"Idle">>
    /\ fullscreen_set = <<TRUE>>

\* C12: when the provider's resize fails during set_inner_size, the call
\* panics without updating the host: the stored size and the pending flag
\* keep their values, and the stored size changes only to a size the
\* provider accepted.
C12_FailedResizeLeavesState ==
    [][lastOp' = "set_inner_size"
         => /\ (provider_calls' # <<>> /\ provider_calls'[1].result = "Err")
                  => /\ status' = "panicked"
                     /\ UNCHANGED <<inner_size, size_changed>>
            /\ status' = "panicked"
                  => (provider_calls' # <<>> /\ provider_calls'[1].result = "Err")
            /\ inner_size' # inner_size
                  => provider_calls' =
                         <<[fn |-> "resize", size |-> inner_size', result |-> "Ok"]>>]_vars

\* C12 witness: a set_inner_size call has panicked on a failed resize; the
\* pending flag is clear and the stored size is not the clamped request.
C12_Witness ==
    /\ lastOp = "set_inner_size"
    /\ status = "panicked"
    /\ provider_calls[1].result = "Err"
    /\ ~size_changed
    /\ inner_size # Clamped(arg)

\* C13: the stored logical size is mutated only by set_inner_size: get_events,
\* has_events, get_coordinates, page_height, set_fullscreen, get_fullscreen,
\* set_animation_state and is_animating leave the stored size and the
\* provider's surface size unchanged, and get_coordinates and page_height
\* also leave the pending flag unchanged.
C13_SizeFrame ==
    [][/\ (lastOp' \in {"get_events", "has_events", "get_coordinates", "page_height",
                       "set_fullscreen", "get_fullscreen", "set_animation_state",
                       "is_animating"}
             => UNCHANGED <<inner_size, webrender_surfman>>)
       /\ (lastOp' \in {"get_coordinates", "page_height"}
             => UNCHANGED size_changed)
       /\ (inner_size' # inner_size => lastOp' = "set_inner_size")]_vars

\* C13 witness: get_coordinates has run with the provider query failing
\* while a resize is pending; the stored size is still the clamped request
\* and the flag is still set.
C13_Witness ==
    /\ lastOp = "get_coordinates"
    /\ provider_calls[1].result = "Err"
    /\ size_changed
    /\ last_request # <<>>
    /\ inner_size = Clamped(last_request)
    /\ webrender_surfman.size = inner_size

\* C14: winit_event_to_servo_event panics in every state and for every
\* event, whereas get_gl_context, get_native_display and get_gl_api always
\* return Unknown, Unknown and None, without failing and without changing
\* the host's state.
C14_Stubs ==
    /\ [](status = "live"
            => /\ \A event \in WinitEvents : ENABLED winit_event_to_servo_event(event)
               /\ ENABLED get_gl_context
               /\ ENABLED get_native_display
               /\ ENABLED get_gl_api)
    /\ [][/\ (lastOp' = "winit_event_to_servo_event"
                => /\ status' = "panicked"
                   /\ UNCHANGED window)
          /\ (lastOp' \in {"get_gl_context", "get_native_display", "get_gl_api"}
                => /\ status' = "live"
                   /\ UNCHANGED window
                   /\ provider_calls' = <<>>)
          /\ (lastOp' = "get_gl_context" => ret' = "GlContext::Unknown")
          /\ (lastOp' = "get_native_display" => ret' = "NativeDisplay::Unknown")
          /\ (lastOp' = "get_gl_api" => ret' = "GlApi::None")]_vars

\* C14 witness: a platform event was handed to a Window with a resize
\* pending, and the call panicked.
C14_Witness ==
    /\ lastOp = "winit_event_to_servo_event"
    /\ arg = "Resized"
    /\ status = "panicked"
    /\ size_changed

\* C15: with a provider that realizes exactly the size it is given, the
\* stored logical size equals the provider's surface size in every reachable
\* state, so after a set_inner_size that returns (also one that skipped the
\* provider) the surface has the clamped size of the request.
C15_StoredEqualsSurface ==
    /\ (status = "live" \/ lastOp # "new")
           => inner_size = webrender_surfman.size
    /\ (lastOp = "set_inner_size" /\ status = "live")
           => webrender_surfman.size = Clamped(arg)

\* C15 witness: a set_inner_size with a non-positive width skipped the
\* provider because the clamped size was already stored, and the surface
\* has that clamped size.
C15_Witness ==
    /\ lastOp = "set_inner_size"
    /\ status = "live"
    /\ provider_calls = <<>>
    /\ arg[1] <= 0
    /\ webrender_surfman.size = Clamped(arg)

\* C16: every size set_inner_size forwards to the provider's resize has both
\* dimensions >= 1, for every request and every stored size; a dimension
\* below 1 reaches the provider only through create.
C16_ResizeArgsPositive ==
    \A i \in 1 .. Len(provider_calls) :
        /\ provider_calls[i].fn = "resize"
               => /\ lastOp = "set_inner_size"
                  /\ provider_calls[i].size[1] >= 1
                  /\ provider_calls[i].size[2] >= 1
        /\ (/\ provider_calls[i].fn \in {"create", "resize"}
            /\ (provider_calls[i].size[1] < 1 \/ provider_calls[i].size[2] < 1))
               => (provider_calls[i].fn = "create" /\ lastOp = "new")

\* C16 witness: set_inner_size(-1, 0) called the provider's resize with (1,1).
C16_Witness ==
    /\ lastOp = "set_inner_size"
    /\ arg = <<-1, 0>>
    /\ provider_calls # <<>>
    /\ provider_calls[1].fn = "resize"
    /\ provider_calls[1].size = <<1, 1>>

\* C17: right after construction, before any other call changes it, the host
\* has no pending event (has_events is false, get_events returns the empty
\* sequence), is not animating and is not fullscreen; construction
\* synthesizes no Resize event.
C17_FreshWindow ==
    /\ (lastOp = "new" /\ status = "live")
           => /\ ~size_changed
              /\ animation_state = "Idle"
              /\ ~fullscreen
    /\ (lastOp = "has_events" /\ polls_since_set = -1) => ret = FALSE
    /\ (lastOp = "get_events" /\ polls_since_set = -1) => ret = <<>>
    /\ (lastOp = "is_animating" /\ animation_set = <<>>) => ret = FALSE
    /\ (lastOp = "get_fullscreen" /\ fullscreen_set = <<>>) => ret = FALSE

\* C17 witness: get_events on a Window on which no setter was ever called
\* has returned the empty sequence.
C17_Witness ==
    /\ lastOp = "get_events"
    /\ polls_since_set = -1
    /\ fullscreen_set = <<>>
    /\ animation_set = <<>>
    /\ ret = <<>>
    /\ ~fullscreen
    /\ animation_state = "Idle"

====
